---- MODULE Spec2Model ----
(***************************************************************************)
(* The seed route of the dashboard (src/app/seed/route.ts): the GET        *)
(* handler, the connectivity probe with its retry loop, the four seed      *)
(* procedures and the module-level database client they all share.         *)
(*                                                                         *)
(* Two specifications are given.                                           *)
(*   Spec      GET invocations of one server process, run against the      *)
(*             module-level client `sql` (a pool of one connection).       *)
(*   SeedSpec  the begin callback (seedUsers, seedCustomers, seedInvoices, *)
(*             seedRevenue in that order) run to completion against a      *)
(*             database that executes every statement it is handed.        *)
(* The client is the postgres library; what the model keeps of it is the   *)
(* behaviour the route relies on: a query goes to a free connection or     *)
(* waits in the pool's queue, begin reserves a connection for its          *)
(* transaction, end() refuses every later query and resolves once the      *)
(* connection is idle and unreserved.                                      *)
(***************************************************************************)
EXTENDS Integers, Sequences, FiniteSets, TLC

\* Bounds of the model.
MaxInv == 2
MaxRuns == 2
NUsers == 2
NCustomers == 3
NInvoices == 3
NRevenue == 2

\* Program constants.
maxRetries == 3
PoolMax == 1

VARIABLES configured, sql, db, inv, runs, cur, pending

vars == <<configured, sql, db, inv, runs, cur, pending>>

Inv == 1..MaxInv

----------------------------------------------------------------------------
\* The static sample records (placeholder-data).

users == [k \in 1..NUsers |-> [id |-> k, name |-> k, email |-> k, password |-> k]]

customers == [k \in 1..NCustomers |-> [id |-> k, name |-> k, email |-> k, image_url |-> k]]

invoices == [k \in 1..NInvoices |->
               [customer_id |-> ((k - 1) % NCustomers) + 1, amount |-> k,
                status |-> "paid", date |-> k]]

revenue == [k \in 1..NRevenue |-> [month |-> k, revenue |-> k]]

\* bcrypt.hash(password, 10): never the plaintext.
Hash(password) == [bcrypt |-> password]

----------------------------------------------------------------------------
\* The statements of the begin callback, in the order the code awaits them.

Program ==
  << [proc |-> "users",     kind |-> "ext"],
     [proc |-> "users",     kind |-> "table"],
     [proc |-> "users",     kind |-> "insert"],
     [proc |-> "customers", kind |-> "ext"],
     [proc |-> "customers", kind |-> "table"],
     [proc |-> "customers", kind |-> "insert"],
     [proc |-> "invoices",  kind |-> "ext"],
     [proc |-> "invoices",  kind |-> "table"],
     [proc |-> "invoices",  kind |-> "insert"],
     [proc |-> "revenue",   kind |-> "table"],
     [proc |-> "revenue",   kind |-> "insert"] >>

Sample(proc) ==
  CASE proc = "users" -> DOMAIN users
    [] proc = "customers" -> DOMAIN customers
    [] proc = "invoices" -> DOMAIN invoices
    [] proc = "revenue" -> DOMAIN revenue

Query(id, kind, n, rec) == [inv |-> id, kind |-> kind, n |-> n, rec |-> rec]

\* The records whose statement step s issues: one for DDL, one per sample
\* record for the inserts of a Promise.all(map(...)).
Recs(s) == IF Program[s].kind = "insert" THEN Sample(Program[s].proc) ELSE {0}

StmtSet(id, s) == {Query(id, "seed", s, r) : r \in Recs(s)}

StmtSeq(id, s) ==
  IF Program[s].kind = "insert"
  THEN [k \in 1..Cardinality(Recs(s)) |-> Query(id, "seed", s, k)]
  ELSE << Query(id, "seed", s, 0) >>

\* Mutant of StepDone: the procedure does not wait for what it issued.
StepDoneNoAwait(outstanding) == TRUE

\* await: the procedure goes on when nothing it issued is outstanding.
StepDone(outstanding) == outstanding = {}

----------------------------------------------------------------------------
\* The database.

EmptyDb ==
  [ext |-> FALSE, tables |-> {}, users |-> {}, customers |-> {},
   invoices |-> {}, revenue |-> {}, nextId |-> 1]

\* uuid_generate_v4(): an identifier no row has had.
uuid_generate_v4(d) == d.nextId

InsertUser(d, k) ==
  LET u == users[k] IN
  IF \E r \in d.users : r.id = u.id THEN d
  ELSE [d EXCEPT !.users = @ \cup
          {[id |-> u.id, name |-> u.name, email |-> u.email,
            password |-> Hash(u.password)]}]

InsertCustomer(d, k) ==
  LET c == customers[k] IN
  IF \E r \in d.customers : r.id = c.id THEN d
  ELSE [d EXCEPT !.customers = @ \cup {c}]

\* The insert names no id: the column default supplies one.
InsertInvoice(d, k) ==
  LET v == invoices[k]
      id == uuid_generate_v4(d) IN
  IF \E r \in d.invoices : r.id = id THEN d
  ELSE [d EXCEPT !.invoices = @ \cup
          {[id |-> id, customer_id |-> v.customer_id, amount |-> v.amount,
            status |-> v.status, date |-> v.date]},
        !.nextId = @ + 1]

InsertRevenue(d, k) ==
  LET m == revenue[k] IN
  IF \E r \in d.revenue : r.month = m.month THEN d
  ELSE [d EXCEPT !.revenue = @ \cup {m}]

\* A statement the database rejects: an insert into a missing table, a
\* default that needs the missing extension, a second row for a unique email.
Fails(q, d) ==
  /\ q.kind = "seed"
  /\ LET st == Program[q.n] IN
     /\ st.kind = "insert"
     /\ \/ st.proc \notin d.tables
        \/ st.proc = "invoices" /\ ~d.ext
        \/ /\ st.proc = "users"
           /\ \E r \in d.users : r.email = users[q.rec].email /\ r.id # users[q.rec].id

Exec(q, d) ==
  IF q.kind # "seed" THEN d
  ELSE LET st == Program[q.n] IN
       CASE st.kind = "ext" -> [d EXCEPT !.ext = TRUE]
         [] st.kind = "table" -> [d EXCEPT !.tables = @ \cup {st.proc}]
         [] st.proc = "users" -> InsertUser(d, q.rec)
         [] st.proc = "customers" -> InsertCustomer(d, q.rec)
         [] st.proc = "invoices" -> InsertInvoice(d, q.rec)
         [] st.proc = "revenue" -> InsertRevenue(d, q.rec)

RowCounts(d) ==
  [users |-> Cardinality(d.users), customers |-> Cardinality(d.customers),
   invoices |-> Cardinality(d.invoices), revenue |-> Cardinality(d.revenue)]

----------------------------------------------------------------------------
\* The seed procedures run on their own: the begin callback.

\* Counters not used by this specification stay as they start.
SeedStart ==
  /\ cur = 0
  /\ pending = {}
  /\ runs < MaxRuns
  /\ cur' = 1
  /\ pending' = StmtSet(0, 1)
  /\ UNCHANGED <<configured, sql, db, inv, runs>>

\* The database completes one outstanding statement; when the awaited step
\* is complete the callback issues the next step, and after the last step of
\* seedRevenue it returns.
SeedComplete(q) ==
  /\ q \in pending
  /\ LET rest == pending \ {q} IN
     IF Fails(q, db)
     THEN /\ db' = db
          /\ cur' = 0
          /\ pending' = rest
          /\ runs' = MaxRuns
     ELSE /\ db' = Exec(q, db)
          /\ IF cur = 0 \/ ~StepDone(IF cur = 0 THEN {} ELSE rest \cap StmtSet(0, cur))
             THEN /\ cur' = cur
                  /\ pending' = rest
                  /\ runs' = runs
             ELSE IF cur = Len(Program)
                  THEN /\ cur' = 0
                       /\ pending' = rest
                       /\ runs' = runs + 1
                  ELSE /\ cur' = cur + 1
                       /\ pending' = rest \cup StmtSet(0, cur + 1)
                       /\ runs' = runs
  /\ UNCHANGED <<configured, sql, inv>>

----------------------------------------------------------------------------
\* The module-level client: const sql = postgres(url, { max: 1, ... }).
\*   ending    end() has been called
\*   reserved  the invocation whose transaction holds the connection, or 0
\*   sent      the queries on the connection, answered in this order
\*   queries   the queries waiting in the pool for a connection

NewClient == [ending |-> FALSE, reserved |-> 0, sent |-> << >>, queries |-> << >>]

\* A connection of the pool that no transaction holds.
FreeConnection(p) == PoolMax - (IF p.reserved = 0 THEN 0 ELSE 1) > 0

\* sql`...` on the module-level handle, and the begin statement of sql.begin:
\* to a free connection, else to the pool's queue. begin reserves the
\* connection it is written to.
PoolSend(p, q) ==
  IF FreeConnection(p)
  THEN [p EXCEPT !.sent = Append(@, q),
                 !.reserved = IF q.kind = "begin" THEN q.inv ELSE @]
  ELSE [p EXCEPT !.queries = Append(@, q)]

RECURSIVE PoolSendAll(_, _)
PoolSendAll(p, qs) ==
  IF qs = << >> THEN p ELSE PoolSendAll(PoolSend(p, Head(qs)), Tail(qs))

\* A statement on the transaction's own handle: straight to its connection.
TxSend(p, q) == [p EXCEPT !.sent = Append(@, q)]

\* The connection is ready and unreserved: the waiting queries are written to
\* it, up to the first begin, which reserves it.
RECURSIVE Ready(_)
Ready(p) ==
  IF p.queries = << >> \/ ~FreeConnection(p) THEN p
  ELSE Ready(PoolSend([p EXCEPT !.queries = Tail(@)], Head(p.queries)))

\* The end of a transaction gives the connection back.
Release(p) == [p EXCEPT !.reserved = 0]

\* Everything the client still holds, in the order it will be answered.
Outstanding(p) == p.sent \o p.queries

OutstandingSet(p) == {Outstanding(p)[k] : k \in 1..Len(Outstanding(p))}

----------------------------------------------------------------------------
\* The responses of GET.

NoResponse == [status |-> 0, page |-> "", msg |-> ""]

EnvErrorPage ==
  [status |-> 500, page |-> "Environment Variable Error",
   msg |-> "POSTGRES_URL environment variable is not set"]

ConnErrorPage(m) == [status |-> 500, page |-> "Database Connection Error", msg |-> m]

SuccessPage == [status |-> 200, page |-> "Database Seeded Successfully", msg |-> ""]

\* Mutant of SeedErrorPage: the status option is left out of the Response.
SeedErrorPageOk(m) == [status |-> 200, page |-> "Database Seeding Error", msg |-> m]

SeedErrorPage(m) == [status |-> 500, page |-> "Database Seeding Error", msg |-> m]

TimeoutMsg == "Operation timed out after 15000ms"

----------------------------------------------------------------------------
\* One invocation of GET. Its local state:
\*   pc        where the handler is suspended
\*   i         the loop variable of testConnection
\*   step      the statement step of the begin callback being awaited
\*   err       the error the callback threw, kept while the rollback runs
\*   resp      the Response the handler has built
\*   nProbe, nTimeout, nBegin, nStmt, nEnd
\*             the calls made on the client so far: probes, probes that timed
\*             out, sql.begin, schema/seed statements, sql.end
\*   committed the transaction committed

Idle ==
  [pc |-> "idle", i |-> 0, step |-> 0, err |-> "", resp |-> NoResponse,
   nProbe |-> 0, nTimeout |-> 0, nBegin |-> 0, nStmt |-> 0, nEnd |-> 0,
   committed |-> FALSE]

\* Mutant of Finally: the handler returns without the finally block.
FinallySkipped(L) == [L EXCEPT !.pc = "returned"]

\* finally { await sql.end() }: the call; the handler then waits for it.
Finally(L) == [L EXCEPT !.pc = "ending", !.nEnd = @ + 1]

\* A handler step's result: the local state, and the client with end()
\* recorded when the step reached the finally block.
Settle(L, p) ==
  [L |-> L, p |-> IF L.pc = "ending" THEN [p EXCEPT !.ending = TRUE] ELSE p]

\* Mutant of IsLastAttempt: the loop gives up one attempt late.
IsLastAttemptLate(i) == i = maxRetries

\* if (i === maxRetries - 1) throw error
IsLastAttempt(i) == i = maxRetries - 1

\* The catch of testConnection: rethrow on the last attempt (GET answers with
\* the connection-error page), else wait 3 seconds and loop.
AttemptFailed(L, m, timedOut) ==
  LET L1 == [L EXCEPT !.nTimeout = @ + (IF timedOut THEN 1 ELSE 0)] IN
  IF IsLastAttempt(L.i)
  THEN Finally([L1 EXCEPT !.resp = ConnErrorPage(m)])
  ELSE [L1 EXCEPT !.pc = "delay"]

\* One attempt of testConnection: withTimeout(sql`SELECT 1 as test`, 15000).
\* An ended client rejects the query at once.
Attempt(id, L, p) ==
  LET L1 == [L EXCEPT !.nProbe = @ + 1] IN
  IF p.ending
  THEN Settle(AttemptFailed(L1, "CONNECTION_ENDED", FALSE), p)
  ELSE Settle([L1 EXCEPT !.pc = "probe"], PoolSend(p, Query(id, "probe", L.i, 0)))

\* sql.begin(...): the begin statement goes through the pool.
Begin(id, L, p) ==
  LET L1 == [L EXCEPT !.nBegin = @ + 1] IN
  IF p.ending
  THEN Settle(Finally([L1 EXCEPT !.resp = SeedErrorPage("CONNECTION_ENDED")]), p)
  ELSE Settle([L1 EXCEPT !.pc = "begin"], PoolSend(p, Query(id, "begin", 0, 0)))

\* The callback threw: begin rolls the transaction back on its own handle.
Rollback(id, L, p, m) ==
  Settle([L EXCEPT !.pc = "rollback", !.err = m],
         TxSend(p, Query(id, "rollback", 0, 0)))

\* The callback reaches step s. The seed procedures use the module-level sql,
\* so their statements go through the pool; past the last step the callback
\* returns and begin commits on the transaction's handle.
IssueStep(id, L, p, s) ==
  IF s > Len(Program)
  THEN Settle([L EXCEPT !.pc = "commit"], TxSend(p, Query(id, "commit", 0, 0)))
  ELSE LET L1 == [L EXCEPT !.nStmt = @ + Len(StmtSeq(id, s)), !.step = s] IN
       IF p.ending
       THEN Rollback(id, L1, p, "CONNECTION_ENDED")
       ELSE Settle([L1 EXCEPT !.pc = "seed"], PoolSendAll(p, StmtSeq(id, s)))

\* The handler is waiting for q.
Awaited(q, L) ==
  CASE q.kind = "probe" -> L.pc = "probe" /\ L.i = q.n
    [] q.kind = "begin" -> L.pc = "begin"
    [] q.kind = "seed" -> L.pc = "seed" /\ L.step = q.n
    [] q.kind = "commit" -> L.pc = "commit"
    [] q.kind = "rollback" -> L.pc = "rollback"

\* The handler resumes with the answer to q.
Continue(q, good, L, p) ==
  CASE q.kind = "probe" ->
         IF good THEN Begin(q.inv, L, p)
         ELSE Settle(AttemptFailed(L, "DB_ERROR", FALSE), p)
    [] q.kind = "begin" ->
         IF good THEN IssueStep(q.inv, L, p, 1)
         ELSE Settle(Finally([L EXCEPT !.resp = SeedErrorPage("DB_ERROR")]), p)
    [] q.kind = "seed" ->
         IF ~good THEN Rollback(q.inv, L, p, "DB_ERROR")
         ELSE IF StepDone(OutstandingSet(p) \cap StmtSet(q.inv, q.n))
              THEN IssueStep(q.inv, L, p, q.n + 1)
              ELSE Settle(L, p)
    [] q.kind = "commit" ->
         IF good
         THEN Settle(Finally([L EXCEPT !.committed = TRUE, !.resp = SuccessPage]), p)
         ELSE Settle(Finally([L EXCEPT !.resp = SeedErrorPage("DB_ERROR")]), p)
    [] q.kind = "rollback" ->
         Settle(Finally([L EXCEPT !.resp = SeedErrorPage(L.err)]), p)

----------------------------------------------------------------------------
\* The steps of GET invocations sharing the client.

\* Mutant of Start: the probe runs without the environment check.
StartUnchecked(id) ==
  /\ inv[id].pc = "idle"
  /\ \A j \in 1..(id - 1) : inv[j].pc # "idle"
  /\ LET r == Attempt(id, inv[id], sql) IN
     /\ inv' = [inv EXCEPT ![id] = r.L]
     /\ sql' = r.p
  /\ UNCHANGED <<configured, db, runs, cur, pending>>

\* GET is called (invocations are numbered in the order they arrive): the
\* environment check, and with the variable set the first attempt of
\* testConnection.
Start(id) ==
  /\ inv[id].pc = "idle"
  /\ \A j \in 1..(id - 1) : inv[j].pc # "idle"
  /\ LET r == IF ~configured
              THEN Settle(Finally([inv[id] EXCEPT !.resp = EnvErrorPage]), sql)
              ELSE Attempt(id, inv[id], sql) IN
     /\ inv' = [inv EXCEPT ![id] = r.L]
     /\ sql' = r.p
  /\ UNCHANGED <<configured, db, runs, cur, pending>>

\* Mutant of ProbeTimeout: the timeout also cancels the query.
ProbeTimeoutCancel(id) ==
  /\ inv[id].pc = "probe"
  /\ LET q == Query(id, "probe", inv[id].i, 0)
         p == [sql EXCEPT !.sent = SelectSeq(@, LAMBDA x : x # q),
                          !.queries = SelectSeq(@, LAMBDA x : x # q)]
         r == Settle(AttemptFailed(inv[id], TimeoutMsg, TRUE), p) IN
     /\ inv' = [inv EXCEPT ![id] = r.L]
     /\ sql' = r.p
  /\ UNCHANGED <<configured, db, runs, cur, pending>>

\* The timer of withTimeout wins the race: the attempt fails. Promise.race
\* leaves the query where it is.
ProbeTimeout(id) ==
  /\ inv[id].pc = "probe"
  /\ LET r == Settle(AttemptFailed(inv[id], TimeoutMsg, TRUE), sql) IN
     /\ inv' = [inv EXCEPT ![id] = r.L]
     /\ sql' = r.p
  /\ UNCHANGED <<configured, db, runs, cur, pending>>

\* The 3 second delay is over: i++ and the next attempt.
RetryDelay(id) ==
  /\ inv[id].pc = "delay"
  /\ LET r == Attempt(id, [inv[id] EXCEPT !.i = @ + 1], sql) IN
     /\ inv' = [inv EXCEPT ![id] = r.L]
     /\ sql' = r.p
  /\ UNCHANGED <<configured, db, runs, cur, pending>>

\* The database answers the first query on the connection, with a result or
\* with an error; a handler waiting for it resumes and runs to its next await.
DbAnswer(ok) ==
  /\ sql.sent # << >>
  /\ LET q == Head(sql.sent)
         good == (ok \/ q.kind = "rollback") /\ ~Fails(q, db)
         p1 == [sql EXCEPT !.sent = Tail(@)]
         p2 == IF q.kind \in {"commit", "rollback"} \/ (q.kind = "begin" /\ ~good)
               THEN Release(p1) ELSE p1
         p3 == Ready(p2)
         L == inv[q.inv]
         r == IF Awaited(q, L) THEN Continue(q, good, L, p3) ELSE Settle(L, p3) IN
     /\ db' = IF good THEN Exec(q, db) ELSE db
     /\ inv' = [inv EXCEPT ![q.inv] = r.L]
     /\ sql' = r.p
  /\ UNCHANGED <<configured, runs, cur, pending>>

\* What a handler does when the connection it waits on closes: a probe
\* attempt fails; sql.begin rejects, whatever its callback is doing.
OnClose(L) ==
  IF L.pc = "probe"
  THEN AttemptFailed(L, "CONNECTION_CLOSED", FALSE)
  ELSE Finally([L EXCEPT !.resp = SeedErrorPage("CONNECTION_CLOSED")])

\* The connection is lost: the queries on it are rejected, the transaction
\* holding it is gone, and the queries waiting in the pool get a new one.
ConnLost ==
  /\ sql.sent # << >> \/ sql.reserved # 0
  /\ LET hit(j) == \/ j = sql.reserved
                   \/ \E k \in 1..Len(sql.sent) :
                        sql.sent[k].inv = j /\ Awaited(sql.sent[k], inv[j])
         after == [j \in Inv |-> IF hit(j) THEN OnClose(inv[j]) ELSE inv[j]]
         p1 == Ready([sql EXCEPT !.sent = << >>, !.reserved = 0]) IN
     /\ inv' = after
     /\ sql' = [p1 EXCEPT !.ending = @ \/ \E j \in Inv : after[j].pc = "ending"]
  /\ UNCHANGED <<configured, db, runs, cur, pending>>

\* await sql.end() resolves when the connection is idle and no transaction
\* holds it; the handler then returns its response.
EndResolve(id) ==
  /\ inv[id].pc = "ending"
  /\ sql.sent = << >>
  /\ sql.reserved = 0
  /\ inv' = [inv EXCEPT ![id].pc = "returned"]
  /\ UNCHANGED <<configured, sql, db, runs, cur, pending>>

----------------------------------------------------------------------------
\* The specifications.

Init ==
  /\ configured \in BOOLEAN
  /\ sql = NewClient
  /\ db = EmptyDb
  /\ inv = [j \in Inv |-> Idle]
  /\ runs = 0
  /\ cur = 0
  /\ pending = {}

Next ==
  \/ \E id \in Inv : Start(id)
  \/ \E id \in Inv : ProbeTimeout(id)
  \/ \E id \in Inv : RetryDelay(id)
  \/ \E ok \in BOOLEAN : DbAnswer(ok)
  \/ ConnLost
  \/ \E id \in Inv : EndResolve(id)

Spec == Init /\ [][Next]_vars

\* The event loop runs every handler that can run, every timer fires, and
\* the database answers every statement it receives. Losing the connection
\* is something that may happen, not something that must.
FairSpec ==
  /\ Spec
  /\ \A id \in Inv : WF_vars(Start(id))
  /\ \A id \in Inv : WF_vars(ProbeTimeout(id))
  /\ \A id \in Inv : WF_vars(RetryDelay(id))
  /\ \A id \in Inv : WF_vars(EndResolve(id))
  /\ WF_vars(\E ok \in BOOLEAN : DbAnswer(ok))

SeedInit ==
  /\ configured = TRUE
  /\ sql = NewClient
  /\ db = EmptyDb
  /\ inv = [j \in Inv |-> Idle]
  /\ runs = 0
  /\ cur = 0
  /\ pending = {}

SeedNext ==
  \/ SeedStart
  \/ \E q \in pending : SeedComplete(q)

SeedSpec == SeedInit /\ [][SeedNext]_vars

----------------------------------------------------------------------------
\* The claims.

Responded(id) == inv[id].resp # NoResponse

\* C1: seeding is idempotent: once one run of the seed procedures has
\* completed, a further run adds no row to any of the four tables.
C1_Idempotent == [][runs >= 1 => RowCounts(db)' = RowCounts(db)]_vars

\* C2: all-or-nothing seeding: after a seeding failure no row of the run is
\* visible in any table, and every statement of the four seed procedures is
\* part of the one transaction: it is on the connection that the transaction
\* of its invocation holds, never in the pool's queue or on a connection
\* outside the transaction.
C2_AllOrNothing ==
  /\ \A id \in Inv :
       inv[id].resp.page = "Database Seeding Error" => RowCounts(db) = RowCounts(EmptyDb)
  /\ \A k \in 1..Len(sql.queries) : sql.queries[k].kind # "seed"
  /\ \A k \in 1..Len(sql.sent) :
       sql.sent[k].kind = "seed" => sql.reserved = sql.sent[k].inv

\* C3: on every exit path of a GET invocation sql.end() is called exactly
\* once: it has been called once as soon as the response is built, never
\* before and never twice, and the handler returns only after the call.
C3_ReleasedOnce ==
  \A id \in Inv :
    /\ inv[id].nEnd \in {0, 1}
    /\ Responded(id) <=> inv[id].nEnd = 1
    /\ inv[id].pc = "returned" => Responded(id) /\ inv[id].nEnd = 1 /\ sql.ending

C3_Witness ==
  \E id \in Inv :
    /\ inv[id].pc = "returned"
    /\ inv[id].resp.page = "Database Seeding Error"
    /\ inv[id].nEnd = 1

\* C4: invocations share no mutable state: no invocation fails because the
\* client was ended by another one, so no response reports CONNECTION_ENDED
\* (an invocation calls end() only after its own last query).
C4_NoSharedState == \A id \in Inv : inv[id].resp.msg # "CONNECTION_ENDED"

\* C5 as stated: with POSTGRES_URL absent GET makes no call of any kind on
\* the database client and returns the configuration-error page.
C5_NoClientCall ==
  \A id \in Inv :
    ~configured /\ inv[id].pc = "returned" =>
      /\ inv[id].resp = EnvErrorPage
      /\ inv[id].nProbe + inv[id].nBegin + inv[id].nStmt + inv[id].nEnd = 0

\* C5 as amended: with POSTGRES_URL absent GET builds the configuration-error
\* page and issues no query (no probe, no begin, no schema or seed statement);
\* its one call on the client is sql.end() in the finally block.
C5_NoQuery ==
  \A id \in Inv :
    ~configured /\ inv[id].pc # "idle" =>
      /\ inv[id].resp = EnvErrorPage
      /\ inv[id].nProbe = 0 /\ inv[id].nBegin = 0 /\ inv[id].nStmt = 0
      /\ inv[id].nEnd = 1
      /\ Outstanding(sql) = << >>

C5_Witness == ~configured /\ \E id \in Inv : inv[id].pc = "returned"

\* C6: no invocation makes more than maxRetries probe attempts, and one whose
\* attempts all timed out has made exactly maxRetries of them, has issued no
\* begin and no schema or seed statement, and answers with the
\* connection-error page (status 500).
C6_ExactAttempts ==
  \A id \in Inv :
    /\ inv[id].nProbe <= maxRetries
    /\ Responded(id) /\ inv[id].nProbe > 0 /\ inv[id].nTimeout = inv[id].nProbe =>
         /\ inv[id].nProbe = maxRetries
         /\ inv[id].nBegin = 0 /\ inv[id].nStmt = 0
         /\ inv[id].resp = ConnErrorPage(TimeoutMsg)

C6_Witness ==
  \E id \in Inv : inv[id].pc = "returned" /\ inv[id].nTimeout = maxRetries

\* C7: the response is 200 with the success page only after the callback ran
\* all its steps and the transaction committed; otherwise it is 500 with the
\* configuration-error page when POSTGRES_URL is absent, the connection-error
\* page when testConnection gave up after maxRetries attempts, and the
\* seeding-error page for a failure after sql.begin was called.
C7_ResponseMap ==
  \A id \in Inv :
    Responded(id) =>
      /\ inv[id].resp.status \in {200, 500}
      /\ inv[id].resp.status = 200 <=> inv[id].resp.page = "Database Seeded Successfully"
      /\ inv[id].resp.page = "Database Seeded Successfully" <=> inv[id].committed
      /\ inv[id].committed => inv[id].step = Len(Program)
      /\ inv[id].resp.page = "Environment Variable Error" <=> ~configured
      /\ inv[id].resp.page = "Database Connection Error" <=>
           (configured /\ inv[id].nBegin = 0 /\ inv[id].nProbe = maxRetries)
      /\ inv[id].resp.page = "Database Seeding Error" <=>
           (configured /\ inv[id].nBegin = 1 /\ ~inv[id].committed)

C7_Witness ==
  \E a, b \in Inv :
    /\ inv[a].pc = "returned" /\ inv[a].resp = SeedErrorPage("DB_ERROR")
    /\ inv[b].pc = "returned" /\ inv[b].resp.page = "Database Connection Error"

\* The effect of every statement of step s is in the database.
StepVisible(s) ==
  LET st == Program[s] IN
  CASE st.kind = "ext" -> db.ext
    [] st.kind = "table" -> st.proc \in db.tables
    [] st.proc = "users" -> \A k \in DOMAIN users : \E r \in db.users : r.id = users[k].id
    [] st.proc = "customers" -> \A k \in DOMAIN customers : customers[k] \in db.customers
    [] st.proc = "invoices" ->
         \A k \in DOMAIN invoices :
           \E r \in db.invoices :
             r.customer_id = invoices[k].customer_id /\ r.amount = invoices[k].amount
    [] st.proc = "revenue" -> \A k \in DOMAIN revenue : revenue[k] \in db.revenue

\* C8: the procedures run in the order users, customers, invoices, revenue
\* and each step starts only after every statement before it has completed:
\* every outstanding statement belongs to the current step and the effects
\* of all earlier steps are in the database; no invoice insert is outstanding
\* while a customer insert is.
C8_ProcedureOrder ==
  /\ \A q \in pending : q.n = cur /\ \A s \in 1..(q.n - 1) : StepVisible(s)
  /\ \A q, c \in pending :
       ~(Program[q.n].proc = "invoices" /\ Program[c.n].proc = "customers")
  /\ Program[3].proc = "users" /\ Program[6].proc = "customers"
  /\ Program[9].proc = "invoices" /\ Program[11].proc = "revenue"

C8_Witness ==
  /\ runs = 0
  /\ \E q \in pending : Program[q.n] = [proc |-> "invoices", kind |-> "insert"]

\* C9: every invocation that has called sql.begin eventually returns a
\* response, provided the database answers every statement it receives.
C9_SeedingReturns ==
  \A id \in Inv :
    (inv[id].pc \in {"begin", "seed", "commit", "rollback"}) ~> (inv[id].pc = "returned")

\* C10 as stated: the query of a timed-out attempt is no longer outstanding:
\* every probe query the client holds is one its invocation is waiting for.
C10_TimedOutQueryGone ==
  \A q \in OutstandingSet(sql) : q.kind = "probe" => Awaited(q, inv[q.inv])

\* C10 as amended: a timeout ends that attempt only: the handler goes to the
\* retry delay (or, after the last attempt, to the connection-error page) and
\* no other invocation changes; the timed-out query is not withdrawn, it
\* stays outstanding on the client, and the queries of one invocation's
\* attempts are answered in the order of the attempts.
C10_TimeoutLeavesQuery ==
  /\ [] (\A a, b \in 1..Len(Outstanding(sql)) :
           LET x == Outstanding(sql)[a]
               y == Outstanding(sql)[b] IN
           x.kind = "probe" /\ y.kind = "probe" /\ x.inv = y.inv /\ a < b => x.n < y.n)
  /\ [][\A id \in Inv :
          inv[id].nTimeout' > inv[id].nTimeout =>
            /\ Outstanding(sql)' = Outstanding(sql)
            /\ Query(id, "probe", inv[id].i, 0) \in OutstandingSet(sql)'
            /\ inv[id].pc' = IF inv[id].i = maxRetries - 1 THEN "ending" ELSE "delay"
            /\ inv[id].i' = inv[id].i
            /\ \A j \in Inv \ {id} : inv[j]' = inv[j]]_vars

C10_Witness ==
  \E id \in Inv :
    /\ inv[id].pc = "probe"
    /\ inv[id].i = 1
    /\ \E a, b \in 1..Len(sql.sent) :
         /\ a < b
         /\ sql.sent[a] = Query(id, "probe", 0, 0)
         /\ sql.sent[b] = Query(id, "probe", 1, 0)

====
